---------------------------- MODULE Spec2Model ----------------------------
(***************************************************************************)
(* A model of freemind-cli's reconciliation engine (src/src/data.rs, with  *)
(* the menu handlers of src/src/main.rs): the record type and its          *)
(* equality, the identifier allocator, the local store, the two streaming  *)
(* XML passes (delete_removed, insert_created_entries), the entry          *)
(* serializer and the sync pipeline.                                       *)
(*                                                                         *)
(* An XML document is modelled as the sequence of events quick_xml's       *)
(* Reader delivers for it and its Writer writes back.  Strings are         *)
(* sequences of one-character strings, so that to_string and parse are     *)
(* real conversions.  Option<T> is <<>> (None) or <<v>> (Some(v)).         *)
(***************************************************************************)
EXTENDS Integers, Sequences, FiniteSets

(***************************************************************************)
(* Bounds of the model.                                                    *)
(***************************************************************************)
\* identifiers the random generator can draw are 0..MaxId (u16 in the code)
MaxId == 2
\* the user adds records only while the store holds fewer than MaxElems
MaxElems == 2
\* a generated document holds at most MaxItems children of the root
MaxItems == 2

\* the largest u16, the type of AppElement.id
U16Max == 65535

(***************************************************************************)
(* Option<T>                                                               *)
(***************************************************************************)
None == <<>>
Some(v) == <<v>>
IsSome(o) == o # None
Unwrap(o) == o[1]

(***************************************************************************)
(* Strings, u16::to_string and str::parse::<u16>                           *)
(***************************************************************************)
Digits == <<"0", "1", "2", "3", "4", "5", "6", "7", "8", "9">>
IsDigit(c) == \E i \in 1..10 : Digits[i] = c
DigitVal(c) == (CHOOSE i \in 1..10 : Digits[i] = c) - 1

RECURSIVE to_string(_)
\* the decimal text of an unsigned integer (Display for u16 / u32)
to_string(n) ==
    IF n < 10 THEN <<Digits[n + 1]>>
    ELSE to_string(n \div 10) \o <<Digits[(n % 10) + 1]>>

RECURSIVE DigitsValue(_)
DigitsValue(s) ==
    IF s = <<>> THEN 0
    ELSE 10 * DigitsValue(SubSeq(s, 1, Len(s) - 1)) + DigitVal(s[Len(s)])

\* str::parse for an unsigned type of maximum max: an optional leading "+",
\* then at least one digit, nothing else, and no overflow; Err is None here
ParseUnsigned(s, max) ==
    LET body == IF s # <<>> /\ s[1] = "+" THEN Tail(s) ELSE s IN
    IF body = <<>> \/ (\E i \in 1..Len(body) : ~IsDigit(body[i])) THEN None
    ELSE IF DigitsValue(body) > max THEN None
    ELSE Some(DigitsValue(body))

ParseU16(s) == ParseUnsigned(s, U16Max)

(***************************************************************************)
(* AppElement                                                              *)
(***************************************************************************)
\* AppElement::new: removed starts false
NewElement(id, title, description, due) ==
    [id |-> id, title |-> title, description |-> description, due |-> due,
     removed |-> FALSE]

\* the record with its removed flag set (what remove(id) leaves)
Tombstone(e) == [e EXCEPT !.removed = TRUE]

(***************************************************************************)
(* XML events (quick_xml::events::Event)                                   *)
(***************************************************************************)
Attr(key, val) == [key |-> key, val |-> val]
Start(tag, attrs) == [k |-> "Start", tag |-> tag, attrs |-> attrs, txt |-> <<>>]
End(tag) == [k |-> "End", tag |-> tag, attrs |-> <<>>, txt |-> <<>>]
Empty(tag, attrs) == [k |-> "Empty", tag |-> tag, attrs |-> attrs, txt |-> <<>>]
Text(txt) == [k |-> "Text", tag |-> "", attrs |-> <<>>, txt |-> txt]
\* the reader's Err(_) result: a place where the text is not well-formed
ErrEv == [k |-> "Err", tag |-> "", attrs |-> <<>>, txt |-> <<>>]

\* QName::local_name: the name without its namespace prefix
LocalName(key) == IF key = "a:id" THEN "id" ELSE key

RECURSIVE Concat(_)
Concat(ss) == IF ss = <<>> THEN <<>> ELSE Head(ss) \o Concat(Tail(ss))

(***************************************************************************)
(* AppElement::write                                                       *)
(***************************************************************************)
Write_SelfClosing(e) ==
    IF e.id = None THEN <<>>
    ELSE <<Empty("entry", <<Attr("id", to_string(Unwrap(e.id)))>>)>>

Write_DescriptionFirst(e) ==
    IF e.id = None THEN <<>>
    ELSE <<Start("entry", <<Attr("id", to_string(Unwrap(e.id)))>>)>>
         \o <<Start("description", <<>>), Text(e.description), End("description")>>
         \o <<Start("name", <<>>), Text(e.title), End("name")>>
         \o (IF e.due # None
             THEN <<Start("due", <<>>), Text(to_string(Unwrap(e.due))), End("due")>>
             ELSE <<>>)
         \o <<End("entry")>>

Write(e) ==
    IF e.id = None THEN <<>>
    ELSE <<Start("entry", <<Attr("id", to_string(Unwrap(e.id)))>>)>>
         \o <<Start("name", <<>>), Text(e.title), End("name")>>
         \o <<Start("description", <<>>), Text(e.description), End("description")>>
         \o (IF e.due # None
             THEN <<Start("due", <<>>), Text(to_string(Unwrap(e.due))), End("due")>>
             ELSE <<>>)
         \o <<End("entry")>>

(***************************************************************************)
(* AppState::delete_removed, one reader event at a time                    *)
(***************************************************************************)
\* Iterator::position(|e| e.id == Some(v)): the first index, 0 when there is none
Position(elems, v) ==
    IF \E i \in 1..Len(elems) : elems[i].id = Some(v)
    THEN CHOOSE i \in 1..Len(elems) :
            /\ elems[i].id = Some(v)
            /\ \A j \in 1..(i - 1) : elems[j].id # Some(v)
    ELSE 0

\* Vec::remove(pos)
RemoveAt(s, i) == SubSeq(s, 1, i - 1) \o SubSeq(s, i + 1, Len(s))

\* the state of one pass: the store, the two skip variables, the flag and
\* the writer's buffer
PassInit(elems) ==
    [elements |-> elems, ffwd |-> FALSE, skip |-> Start("", <<>>),
     modified |-> FALSE, out |-> <<>>, write |-> TRUE]

\* the closure run on one attribute of an entry start e (data.rs 394-410)
ScanAttr_AnyRecord(st, e, a) ==
    IF LocalName(a.key) = "id" /\ ParseU16(a.val) # None
       /\ Position(st.elements, Unwrap(ParseU16(a.val))) # 0
    THEN [st EXCEPT
            !.elements = RemoveAt(st.elements,
                                  Position(st.elements, Unwrap(ParseU16(a.val)))),
            !.ffwd = TRUE, !.skip = e, !.modified = TRUE, !.write = FALSE]
    ELSE st

ScanAttr(st, e, a) ==
    IF LocalName(a.key) = "id" /\ ParseU16(a.val) # None
    THEN LET v == Unwrap(ParseU16(a.val))
             pos == Position(st.elements, v) IN
         IF pos # 0 /\ st.elements[pos].removed
         THEN [st EXCEPT !.elements = RemoveAt(st.elements, pos),
                         !.ffwd = TRUE, !.skip = e, !.modified = TRUE,
                         !.write = FALSE]
         ELSE st
    ELSE st

RECURSIVE ScanAttrs(_, _, _)
\* for_each over the attributes of e, in document order
ScanAttrs(st, e, attrs) ==
    IF attrs = <<>> THEN st
    ELSE ScanAttrs(ScanAttr(st, e, Head(attrs)), e, Tail(attrs))

\* arm 2 (data.rs 388-414): the start of an entry, outside skip mode
DelEntryStart(st, e) ==
    LET s1 == ScanAttrs([st EXCEPT !.write = TRUE], e, e.attrs) IN
    IF s1.write THEN [s1 EXCEPT !.out = Append(s1.out, e)] ELSE s1

\* arm 4 leaving the skip target as it is
DelSkipEnd_KeepsSkip(st, e) ==
    [st EXCEPT !.ffwd = FALSE]

\* arm 4 (data.rs 418-421): an End that equals skip.to_end()
DelSkipEnd_KeepsEnd(st, e) ==
    [st EXCEPT !.ffwd = FALSE, !.skip = Start("", <<>>), !.out = Append(st.out, e)]

DelSkipEnd(st, e) ==
    [st EXCEPT !.ffwd = FALSE, !.skip = Start("", <<>>)]

\* the match of data.rs 384-436 on one event that is neither Eof nor Err
DelStep(st, e) ==
    IF e.k = "Start" /\ st.ffwd THEN st
    ELSE IF e.k = "Start" /\ e.tag = "entry" THEN DelEntryStart(st, e)
    ELSE IF e.k = "Start" THEN [st EXCEPT !.out = Append(st.out, e)]
    ELSE IF e.k = "End" /\ e = End(st.skip.tag) THEN DelSkipEnd(st, e)
    ELSE IF e.k = "End" /\ st.ffwd THEN st
    ELSE IF e.k = "End" THEN [st EXCEPT !.out = Append(st.out, e)]
    ELSE IF st.ffwd THEN st
    ELSE [st EXCEPT !.out = Append(st.out, e)]

\* the loop ends at Eof (the end of the sequence) and at the first Err
AtEnd(doc, n) == IF n >= Len(doc) THEN TRUE ELSE doc[n + 1].k = "Err"

RECURSIVE DelRun(_, _, _)
DelRun(st, doc, n) ==
    IF AtEnd(doc, n) THEN st ELSE DelRun(DelStep(st, doc[n + 1]), doc, n + 1)

\* delete_removed(xml) on store elems: the pass state at its return
DeleteRemoved(elems, doc) == DelRun(PassInit(elems), doc, 0)

(***************************************************************************)
(* Documents                                                               *)
(***************************************************************************)
\* the text "a" / "d" a generated entry carries as name / description
TitleA == <<"a">>
DescD == <<"d">>

\* <registry> items... </registry>
Registry(items) == <<Start("registry", <<>>)>> \o Concat(items) \o <<End("registry")>>

IdAttr(i) == <<Attr("id", to_string(i))>>

\* the children of an entry that AppElement::write emits for title a, description d
Body == <<Start("name", <<>>), Text(TitleA), End("name"),
          Start("description", <<>>), Text(DescD), End("description")>>

EntryElem(attrs) == <<Start("entry", attrs)>> \o Body \o <<End("entry")>>

\* is there an entry element (start or self-closing) whose id attribute reads v
HasEntry(doc, v) ==
    \E n \in 1..Len(doc) :
        /\ doc[n].k \in {"Start", "Empty"}
        /\ doc[n].tag = "entry"
        /\ \E m \in 1..Len(doc[n].attrs) :
              /\ doc[n].attrs[m].key = "id"
              /\ ParseU16(doc[n].attrs[m].val) = Some(v)

\* the events the reader delivers before the loop ends
Delivered(doc) ==
    IF \E n \in 1..Len(doc) : doc[n].k = "Err"
    THEN SubSeq(doc, 1, (CHOOSE n \in 1..Len(doc) :
                            doc[n].k = "Err" /\ \A m \in 1..(n - 1) : doc[m].k # "Err") - 1)
    ELSE doc

\* no entry start tag inside an open entry element (the flat schema)
Flat(doc) ==
    \A i, j \in 1..Len(doc) :
        (i < j /\ doc[i].k = "Start" /\ doc[i].tag = "entry"
               /\ doc[j].k = "Start" /\ doc[j].tag = "entry")
        => \E n \in (i + 1)..(j - 1) : doc[n].k = "End" /\ doc[n].tag = "entry"

\* sequences over S of length at most n
SeqUpTo(S, n) == UNION {[1..m -> S] : m \in 0..n}

(***************************************************************************)
(* Stores the program can hold: a record without identifier is never a     *)
(* tombstone, and of two records with one identifier only the first can be *)
(* (remove marks the first; see StoreShape, an invariant of Spec).         *)
(***************************************************************************)
StoreShapeOf(s) ==
    \A j \in 1..Len(s) :
        /\ s[j].id = None => ~s[j].removed
        /\ \A i \in 1..(j - 1) : (s[i].id = s[j].id /\ s[j].id # None) => ~s[j].removed

\* records of the generated stores
GenRecords ==
    {NewElement(None, TitleA, DescD, None)}
    \cup {NewElement(Some(i), TitleA, DescD, None) : i \in 1..MaxId}
    \cup {Tombstone(NewElement(Some(i), TitleA, DescD, None)) : i \in 1..MaxId}

GenStores == {s \in SeqUpTo(GenRecords, MaxElems) : StoreShapeOf(s)}


(***************************************************************************)
(* AppState::insert_created_entries, one reader event at a time            *)
(***************************************************************************)
\* the elements whose id is one of ids, in store order (data.rs 459-461)
RECURSIVE Created(_, _)
Created(elems, idseq) ==
    IF elems = <<>> THEN <<>>
    ELSE (IF \E n \in 1..Len(idseq) : Some(idseq[n]) = Head(elems).id
          THEN <<Head(elems)>> ELSE <<>>)
         \o Created(Tail(elems), idseq)

RECURSIVE WriteAll(_)
WriteAll(elems) ==
    IF elems = <<>> THEN <<>> ELSE Write(Head(elems)) \o WriteAll(Tail(elems))

\* the match of data.rs 456-469 on one event that is neither Eof nor Err
InsStep(out, e, elems, idseq) ==
    IF e.k = "Start" /\ e.tag = "registry"
    THEN Append(out, e) \o WriteAll(Created(elems, idseq))
    ELSE Append(out, e)

RECURSIVE InsRun(_, _, _, _, _)
InsRun(out, doc, n, elems, idseq) ==
    IF AtEnd(doc, n) THEN out
    ELSE InsRun(InsStep(out, doc[n + 1], elems, idseq), doc, n + 1, elems, idseq)

\* insert_created_entries(xml, ids) on store elems
InsertCreatedEntries(elems, doc, idseq) == InsRun(<<>>, doc, 0, elems, idseq)

(***************************************************************************)
(* AppElement::generate_id and PartialEq for AppElement                    *)
(***************************************************************************)
Range(s) == {s[n] : n \in 1..Len(s)}

GenLoopCond_ZeroOnly(nid, existing) == nid = 0

GenLoopCond_Inverted(nid, existing) == nid = 0 \/ nid \notin Range(existing)

\* the condition of the while loop of generate_id (data.rs 98)
GenLoopCond(nid, existing) == nid = 0 \/ nid \in Range(existing)

\* a == b returns only when a has an identifier: with self.id None the
\* function calls itself on the same arguments (data.rs 34)
EqReturns(a, b) == a.id # None
\* the value a == b returns, when it returns
EqValue(a, b) == a.id = b.id

\* elements.iter().any(|i| &e == i): "diverge" when a comparison made before
\* any() can stop does not return
AnyEq(e, elems) ==
    IF \E n \in 1..Len(elems) :
          /\ ~EqReturns(e, elems[n])
          /\ \A m \in 1..(n - 1) : EqReturns(e, elems[m]) /\ ~EqValue(e, elems[m])
    THEN "diverge"
    ELSE IF \E n \in 1..Len(elems) : EqValue(e, elems[n]) THEN "true"
    ELSE "false"

(***************************************************************************)
(* from_str::<Registry>: the serde decoding of a document (data.rs 11-28,   *)
(* 499).  A field without default that is missing is an error, also the    *)
(* entry list of Registry; an Option field that is missing is None;        *)
(* unknown children and attributes are skipped; the root's name is not     *)
(* looked at.                                                              *)
(***************************************************************************)
RECURSIVE NestEnd(_, _, _)
\* the index of the End that closes the root, reading from event n with the
\* open tags in stack; 0 when an End does not match, or the text ends first
NestEnd(doc, n, stack) ==
    IF n > Len(doc) THEN 0
    ELSE IF doc[n].k = "Start" THEN NestEnd(doc, n + 1, <<doc[n].tag>> \o stack)
    ELSE IF doc[n].k = "End"
         THEN (IF stack = <<>> \/ Head(stack) # doc[n].tag THEN 0
               ELSE IF Len(stack) = 1 THEN n
               ELSE NestEnd(doc, n + 1, Tail(stack)))
    ELSE IF doc[n].k = "Err" THEN 0
    ELSE NestEnd(doc, n + 1, stack)

\* the last event of the element (or text) at index n
ChildEnd(doc, n) == IF doc[n].k = "Start" THEN NestEnd(doc, n, <<>>) ELSE n

RECURSIVE Children(_, _, _)
\* the indices at which the children lying in n..stop begin
Children(doc, n, stop) ==
    IF n > stop THEN <<>> ELSE <<n>> \o Children(doc, ChildEnd(doc, n) + 1, stop)

\* the children of the element starting at n that are elements named tag
Fields(doc, n, tag) ==
    LET kids == Children(doc, n + 1, ChildEnd(doc, n) - 1) IN
    {kids[m] : m \in {m \in 1..Len(kids) :
                        doc[kids[m]].k \in {"Start", "Empty"} /\ doc[kids[m]].tag = tag}}

\* the text of the element at n: an element that holds an element has none
HasText(doc, n) ==
    \/ doc[n].k = "Empty"
    \/ ChildEnd(doc, n) = n + 1
    \/ (ChildEnd(doc, n) = n + 2 /\ doc[n + 1].k = "Text")
FieldText(doc, n) ==
    IF doc[n].k = "Start" /\ ChildEnd(doc, n) = n + 2 THEN doc[n + 1].txt ELSE <<>>

\* a decimal numeral without its leading zeros
StripZeros(s) ==
    IF \E n \in 1..Len(s) : s[n] # "0"
    THEN SubSeq(s, CHOOSE n \in 1..Len(s) : s[n] # "0" /\ \A m \in 1..(n - 1) : s[m] = "0",
                Len(s))
    ELSE <<"0">>
U32MaxText == <<"4", "2", "9", "4", "9", "6", "7", "2", "9", "5">>
NumeralLeq(s, t) ==
    \/ Len(s) < Len(t)
    \/ /\ Len(s) = Len(t)
       /\ \/ s = t
          \/ \E n \in 1..Len(s) :
                /\ DigitVal(s[n]) < DigitVal(t[n])
                /\ \A m \in 1..(n - 1) : s[m] = t[m]
\* str::parse::<u32>; the bound is compared numeral by numeral
ParseU32(s) ==
    LET body == IF s # <<>> /\ s[1] = "+" THEN Tail(s) ELSE s IN
    IF body = <<>> \/ (\E i \in 1..Len(body) : ~IsDigit(body[i])) THEN None
    ELSE IF ~NumeralLeq(StripZeros(body), U32MaxText) THEN None
    ELSE Some(DigitsValue(StripZeros(body)))

IdAttrsOf(e) == {m \in 1..Len(e.attrs) : e.attrs[m].key = "id"}

\* can the entry that starts at n be decoded
EntryDecodes(doc, n) ==
    /\ doc[n].k = "Start"
    /\ \A m \in IdAttrsOf(doc[n]) : ParseU16(doc[n].attrs[m].val) # None
    /\ Cardinality(Fields(doc, n, "name")) = 1
    /\ Cardinality(Fields(doc, n, "description")) = 1
    /\ Cardinality(Fields(doc, n, "due")) <= 1
    /\ \A f \in Fields(doc, n, "name") \cup Fields(doc, n, "description")
                \cup Fields(doc, n, "due") : HasText(doc, f)
    /\ \A f \in Fields(doc, n, "due") : ParseU32(FieldText(doc, f)) # None

OnlyOf(S) == CHOOSE x \in S : TRUE

\* the AppElement decoded from the entry that starts at n; removed is skipped
\* by serde and takes its default
DecodeEntry(doc, n) ==
    [id |-> IF IdAttrsOf(doc[n]) = {} THEN None
            ELSE ParseU16(doc[n].attrs[OnlyOf(IdAttrsOf(doc[n]))].val),
     title |-> FieldText(doc, OnlyOf(Fields(doc, n, "name"))),
     description |-> FieldText(doc, OnlyOf(Fields(doc, n, "description"))),
     due |-> IF Fields(doc, n, "due") = {} THEN None
             ELSE ParseU32(FieldText(doc, OnlyOf(Fields(doc, n, "due")))),
     removed |-> FALSE]

\* the indices of the entry children of the root, in document order
EntryIdx(doc) ==
    LET kids == Children(doc, 2, NestEnd(doc, 1, <<>>) - 1)
        RECURSIVE Pick(_)
        Pick(m) == IF m > Len(kids) THEN <<>>
                   ELSE (IF doc[kids[m]].k \in {"Start", "Empty"}
                            /\ doc[kids[m]].tag = "entry"
                         THEN <<kids[m]>> ELSE <<>>) \o Pick(m + 1)
    IN Pick(1)

\* does from_str return Ok
Decodes(doc) ==
    /\ doc # <<>>
    /\ doc[1].k = "Start"
    /\ NestEnd(doc, 1, <<>>) # 0
    /\ EntryIdx(doc) # <<>>
    /\ \A m \in 1..Len(EntryIdx(doc)) : EntryDecodes(doc, EntryIdx(doc)[m])

\* fetched_registry.entries
Decode(doc) == [m \in 1..Len(EntryIdx(doc)) |-> DecodeEntry(doc, EntryIdx(doc)[m])]

(***************************************************************************)
(* AppState: get_ids, remove                                               *)
(***************************************************************************)
RECURSIVE IdsOf(_)
\* filter_map(|e| e.id).collect()
IdsOf(elems) ==
    IF elems = <<>> THEN <<>>
    ELSE (IF Head(elems).id # None THEN <<Unwrap(Head(elems).id)>> ELSE <<>>)
         \o IdsOf(Tail(elems))

RECURSIVE Filter(_, _)
\* the records of elems that are not removed, when keep; none otherwise
\* (filter(|e| !e.removed && ignore_removed), data.rs 209)
Filter(elems, keep) ==
    IF elems = <<>> THEN <<>>
    ELSE (IF ~Head(elems).removed /\ keep THEN <<Head(elems)>> ELSE <<>>)
         \o Filter(Tail(elems), keep)

get_ids(elems, ignore_removed) == IdsOf(Filter(elems, ignore_removed))

\* remove(id) taking id for the place of the record in the store
Remove_ByIndex(elems, id) ==
    IF id \in 1..Len(elems) THEN [elems EXCEPT ![id].removed = TRUE] ELSE elems

\* remove(id) taking the record out of the store
Remove_Deletes(elems, id) ==
    IF Position(elems, id) = 0 THEN elems
    ELSE RemoveAt(elems, Position(elems, id))

\* remove(id): the store it leaves; it returns true iff Position is not 0
Remove(elems, id) ==
    IF Position(elems, id) = 0 THEN elems
    ELSE [elems EXCEPT ![Position(elems, id)].removed = TRUE]

(***************************************************************************)
(* State                                                                   *)
(***************************************************************************)
VARIABLES
    elements,         \* AppState.elements
    synced,           \* AppState.synced
    pc,               \* the place the running operation has reached
    xml,              \* the document a pass reads
    rpos,             \* number of events the pass's reader has delivered
    ffwd,             \* delete_removed: skip mode
    skip,             \* delete_removed: the start event being skipped
    modified,         \* delete_removed: the flag it returns
    writer,           \* the events the pass has written
    ids,              \* insert_created_entries: its ids argument
    enabled,          \* live_get_by_id: inside an entry element
    indentation,      \* live_get_by_id: the depth
    result,           \* live_get_by_id: the text built so far
    existing_ids,     \* add_missing_ids / generate_id: identifiers in use
    new_ids,          \* add_missing_ids: identifiers allocated so far
    new_id,           \* generate_id: the candidate
    idx,              \* add_missing_ids: position of iter_mut() in elements
    entries_added,    \* the flag add_missing_ids returns
    new,              \* add_new_elements: the records not yet visited
    server,           \* the document the server holds
    answer,           \* sync: the document after the passes
    entries_deleted,  \* sync: the flag delete_removed returned
    fetched_registry, \* sync: the decoded entries
    response,         \* fetch: the response the running sync was given
    sent,             \* history: the payloads the running sync handed to upload
    log,              \* history: the steps the running sync has completed
    op,               \* history: how the last handler ended
    elements0,        \* history: the store when the operation started
    existing0,        \* history: existing_ids when the batch started
    new0,             \* history: the list add_new_elements was given
    marked            \* history: the records remove has marked, by id and title

storeVars == <<elements, synced>>
liveVars == <<enabled, indentation, result>>
passVars == <<xml, rpos, ffwd, skip, modified, writer, ids, liveVars>>
allocVars == <<existing_ids, new_ids, new_id, idx, entries_added>>
syncVars == <<server, answer, entries_deleted, fetched_registry, response, sent, log, op>>
histVars == <<elements0, existing0, new0, marked>>

vars == <<storeVars, pc, passVars, allocVars, new, syncVars, histVars>>

\* live_get_by_id is not running
LiveIdle == enabled = FALSE /\ indentation = 0 /\ result = <<>>

\* no pass is running
PassIdle ==
    /\ xml = <<>> /\ rpos = 0 /\ ffwd = FALSE /\ skip = Start("", <<>>)
    /\ modified = FALSE /\ writer = <<>> /\ ids = <<>>
    /\ LiveIdle

AllocIdle ==
    /\ existing_ids = <<>> /\ new_ids = <<>> /\ new_id = 0 /\ idx = 1
    /\ entries_added = FALSE

\* no response yet
NoResponse == [success |-> FALSE, xmlType |-> FALSE, body |-> <<>>]

SyncIdle ==
    /\ answer = <<>> /\ entries_deleted = FALSE /\ fetched_registry = <<>>
    /\ response = NoResponse /\ sent = <<>>
    /\ log = <<>>

HistIdle == elements0 = <<>> /\ existing0 = <<>> /\ new0 = <<>> /\ marked = {}

(***************************************************************************)
(* SpecDelete: delete_removed on generated documents and stores            *)
(***************************************************************************)
\* id attributes of the generated entries: none, a decimal, one that does not parse
DelAttrs == {<<>>, <<Attr("id", <<"x">>)>>} \cup {IdAttr(i) : i \in 1..MaxId}

DelItems == {EntryElem(a) : a \in DelAttrs}

\* documents of other shapes: a self-closing entry, an entry nested in an
\* entry, an id with a leading zero, an id that overflows u16, a second
\* attribute whose local name is id, and text that stops being well-formed
DelOddDocs ==
    {Registry(<<<<Empty("entry", IdAttr(1))>>>>),
     Registry(<<<<Empty("entry", IdAttr(1))>>, EntryElem(IdAttr(1))>>),
     Registry(<<<<Start("entry", IdAttr(1)), Start("entry", <<>>), End("entry"),
                  Text(TitleA), End("entry")>>>>),
     Registry(<<EntryElem(<<Attr("id", <<"0", "1">>)>>)>>),
     Registry(<<EntryElem(<<Attr("id", <<"6", "5", "5", "3", "7">>)>>)>>),
     Registry(<<EntryElem(<<Attr("id", to_string(1)), Attr("a:id", to_string(MaxId))>>)>>),
     <<>>}
    \cup {SubSeq(Registry(<<EntryElem(IdAttr(1))>>), 1, n) \o <<ErrEv>> : n \in {1, 4, 9}}

DelDocs == {Registry(items) : items \in SeqUpTo(DelItems, MaxItems)} \cup DelOddDocs

InitDelete ==
    /\ elements \in GenStores
    /\ elements0 = elements /\ existing0 = <<>> /\ new0 = <<>>
    /\ marked = {}
    /\ synced = FALSE
    /\ pc = "delete"
    /\ xml \in DelDocs
    /\ rpos = 0 /\ ffwd = FALSE /\ skip = Start("", <<>>)
    /\ modified = FALSE /\ writer = <<>> /\ ids = <<>>
    /\ LiveIdle
    /\ AllocIdle /\ new = <<>> /\ SyncIdle /\ server = <<>> /\ op = "none"

\* one turn of the loop of delete_removed on an event that is not Eof or Err
DeleteRead ==
    /\ pc = "delete"
    /\ ~AtEnd(xml, rpos)
    /\ LET st == DelStep([elements |-> elements, ffwd |-> ffwd, skip |-> skip,
                          modified |-> modified, out |-> writer, write |-> TRUE],
                         xml[rpos + 1]) IN
        /\ elements' = st.elements
        /\ ffwd' = st.ffwd
        /\ skip' = st.skip
        /\ modified' = st.modified
        /\ writer' = st.out
    /\ rpos' = rpos + 1
    /\ UNCHANGED <<synced, pc, xml, ids, liveVars, allocVars, new, syncVars, histVars>>

\* Eof or Err: the loop breaks and delete_removed returns (modified, text)
DeleteReturn ==
    /\ pc = "delete"
    /\ AtEnd(xml, rpos)
    /\ pc' = "deleted"
    /\ UNCHANGED <<storeVars, passVars, allocVars, new, syncVars, histVars>>

NextDelete == DeleteRead \/ DeleteReturn

SpecDelete == InitDelete /\ [][NextDelete]_vars

(***************************************************************************)
(* SpecAlloc: add_missing_ids, with the loop of generate_id                *)
(***************************************************************************)
\* the next element at or after idx that filter(|e| e.id.is_none()) lets through
NextMissing(elems, from) ==
    IF \E j \in from..Len(elems) : elems[j].id = None
    THEN CHOOSE j \in from..Len(elems) :
            elems[j].id = None /\ \A i \in from..(j - 1) : elems[i].id # None
    ELSE 0

InitAlloc ==
    /\ elements \in GenStores
    /\ existing_ids \in SeqUpTo(0..MaxId, MaxItems)
    /\ elements0 = elements /\ existing0 = existing_ids /\ new0 = <<>>
    /\ marked = {}
    /\ synced = FALSE
    /\ pc = "alloc"
    /\ new_ids = <<>> /\ new_id = 0 /\ idx = 1 /\ entries_added = FALSE
    /\ PassIdle /\ new = <<>> /\ SyncIdle /\ server = <<>> /\ op = "none"

\* the iterator of add_missing_ids reaches a record without id: generate_id starts
AllocEnter ==
    /\ pc = "alloc"
    /\ NextMissing(elements, idx) # 0
    /\ idx' = NextMissing(elements, idx)
    /\ new_id' = 0
    /\ pc' = "generate"
    /\ UNCHANGED <<storeVars, passVars, existing_ids, new_ids, entries_added, new,
                   syncVars, histVars>>

\* one turn of the while loop: a random u16 (data.rs 98-100)
GenDraw ==
    /\ pc = "generate"
    /\ GenLoopCond(new_id, existing_ids)
    /\ \E c \in 0..MaxId : new_id' = c
    /\ UNCHANGED <<storeVars, pc, passVars, existing_ids, new_ids, idx, entries_added,
                   new, syncVars, histVars>>

\* the loop is left: the id is stored and pushed (data.rs 101-103, 318)
GenReturn ==
    /\ pc = "generate"
    /\ ~GenLoopCond(new_id, existing_ids)
    /\ elements' = [elements EXCEPT ![idx].id = Some(new_id)]
    /\ existing_ids' = Append(existing_ids, new_id)
    /\ new_ids' = Append(new_ids, new_id)
    /\ idx' = idx + 1
    /\ pc' = "alloc"
    /\ UNCHANGED <<synced, passVars, new_id, entries_added, new, syncVars, histVars>>

\* the iterator is exhausted: (count_after != 0, new_ids) (data.rs 320)
AllocReturn ==
    /\ pc = "alloc"
    /\ NextMissing(elements, idx) = 0
    /\ entries_added' = (Len(new_ids) # 0)
    /\ pc' = "allocated"
    /\ log' = Append(log, "allocate")
    /\ UNCHANGED <<storeVars, passVars, existing_ids, new_ids, new_id, idx, new,
                   server, answer, entries_deleted, fetched_registry, op, histVars,
                   response, sent>>

NextAlloc == AllocEnter \/ GenDraw \/ GenReturn \/ AllocReturn

SpecAlloc == InitAlloc /\ [][NextAlloc]_vars

\* rng.gen::<u16>() is fair: a value that can be drawn for ever is drawn; the
\* code after the loop runs
FairAlloc ==
    /\ \A c \in 0..MaxId : WF_vars(GenDraw /\ new_id' = c)
    /\ WF_vars(GenReturn)

SpecAllocFair == SpecAlloc /\ FairAlloc

(***************************************************************************)
(* SpecInsert: insert_created_entries on generated documents and stores    *)
(***************************************************************************)
InsDocs ==
    {Registry(items) : items \in SeqUpTo({EntryElem(IdAttr(MaxId)), EntryElem(<<>>)}, MaxItems)}
    \cup {<<Empty("registry", <<>>)>>, <<>>, <<ErrEv>>,
          <<Start("registry", <<>>), ErrEv>>,
          <<Start("registry", <<>>), Start("registry", <<>>), End("registry"),
            End("registry")>>}

\* identifier lists without repetition, each identifier carried by a record
IdLists(elems) ==
    {s \in SeqUpTo(1..MaxId, MaxId) :
        /\ \A m, n \in 1..Len(s) : m # n => s[m] # s[n]
        /\ \A n \in 1..Len(s) : \E j \in 1..Len(elems) : elems[j].id = Some(s[n])}

InitInsert ==
    /\ elements \in GenStores
    /\ elements0 = elements /\ existing0 = <<>> /\ new0 = <<>>
    /\ marked = {}
    /\ synced = FALSE
    /\ pc = "insert"
    /\ xml \in InsDocs
    /\ ids \in IdLists(elements)
    /\ rpos = 0 /\ ffwd = FALSE /\ skip = Start("", <<>>)
    /\ modified = FALSE /\ writer = <<>>
    /\ LiveIdle
    /\ AllocIdle /\ new = <<>> /\ SyncIdle /\ server = <<>> /\ op = "none"

\* one turn of the loop of insert_created_entries
InsertRead ==
    /\ pc = "insert"
    /\ ~AtEnd(xml, rpos)
    /\ writer' = InsStep(writer, xml[rpos + 1], elements, ids)
    /\ rpos' = rpos + 1
    /\ UNCHANGED <<storeVars, pc, xml, ffwd, skip, modified, ids, liveVars, allocVars, new,
                   syncVars, histVars>>

InsertReturn ==
    /\ pc = "insert"
    /\ AtEnd(xml, rpos)
    /\ pc' = "inserted"
    /\ UNCHANGED <<storeVars, passVars, allocVars, new, syncVars, histVars>>

NextInsert == InsertRead \/ InsertReturn

SpecInsert == InitInsert /\ [][NextInsert]_vars

(***************************************************************************)
(* SpecAllocMain: add_missing_ids as main.rs has it, on generated stores   *)
(***************************************************************************)
\* the iterator is exhausted: (count_before != count_after, new_ids), with
\* count_before = self.elements.len() and count_after the number of records
\* that went through the map (main.rs 245-255)
AllocReturnMain ==
    /\ pc = "alloc"
    /\ NextMissing(elements, idx) = 0
    /\ entries_added' = (Len(elements) # Len(new_ids))
    /\ pc' = "allocated"
    /\ log' = Append(log, "allocate")
    /\ UNCHANGED <<storeVars, passVars, existing_ids, new_ids, new_id, idx, new,
                   server, answer, entries_deleted, fetched_registry, op, histVars,
                   response, sent>>

NextAllocMain == AllocEnter \/ GenDraw \/ GenReturn \/ AllocReturnMain

SpecAllocMain == InitAlloc /\ [][NextAllocMain]_vars

(***************************************************************************)
(* SpecMerge: add_new_elements on generated stores and decoded lists       *)
(***************************************************************************)
TitleB == <<"b">>

\* records as the decoder builds them: removed is false
RemoteRecords ==
    {NewElement(None, TitleB, DescD, None)}
    \cup {NewElement(Some(i), TitleB, DescD, None) : i \in 1..MaxId}

\* add_new_elements runs after add_missing_ids: every local record has an id
MergeStores == {s \in GenStores : \A j \in 1..Len(s) : s[j].id # None}

InitMerge ==
    /\ elements \in MergeStores
    /\ new \in SeqUpTo(RemoteRecords, MaxItems)
    /\ elements0 = elements /\ existing0 = <<>> /\ new0 = new
    /\ marked = {}
    /\ synced = FALSE
    /\ pc = "merge"
    /\ PassIdle /\ AllocIdle /\ SyncIdle /\ server = <<>> /\ op = "none"

\* the closure of add_new_elements overwriting the local record that equals
\* the remote one
MergeOne_Overwrites ==
    /\ pc = "merge"
    /\ new # <<>>
    /\ LET e == Head(new) IN
        CASE AnyEq(e, elements) = "true" ->
                /\ elements' = [elements EXCEPT ![Position(elements, Unwrap(e.id))] = e]
                /\ new' = Tail(new)
                /\ UNCHANGED pc
          [] AnyEq(e, elements) = "false" ->
                /\ elements' = Append(elements, e)
                /\ new' = Tail(new)
                /\ UNCHANGED pc
          [] OTHER ->
                /\ pc' = "diverged"
                /\ UNCHANGED <<elements, new>>
    /\ UNCHANGED <<synced, passVars, allocVars, syncVars, histVars>>

\* the closure of add_new_elements on the next record (data.rs 303-309)
MergeOne ==
    /\ pc = "merge"
    /\ new # <<>>
    /\ LET e == Head(new) IN
        CASE AnyEq(e, elements) = "true" ->
                /\ new' = Tail(new)
                /\ UNCHANGED <<elements, pc>>
          [] AnyEq(e, elements) = "false" ->
                /\ elements' = Append(elements, e)
                /\ new' = Tail(new)
                /\ UNCHANGED pc
          [] OTHER ->
                \* the comparison recurses without end: stack overflow, or a hang
                /\ pc' = "diverged"
                /\ UNCHANGED <<elements, new>>
    /\ UNCHANGED <<synced, passVars, allocVars, syncVars, histVars>>

MergeReturn ==
    /\ pc = "merge"
    /\ new = <<>>
    /\ pc' = "merged"
    /\ log' = Append(log, "merge")
    /\ UNCHANGED <<storeVars, passVars, allocVars, new, server, answer,
                   entries_deleted, fetched_registry, op, histVars,
                   response, sent>>

NextMerge == MergeOne \/ MergeReturn

SpecMerge == InitMerge /\ [][NextMerge]_vars

(***************************************************************************)
(* Spec: the program.  The store starts empty; the menu adds and removes   *)
(* records and starts sync; the server's document may change between two   *)
(* handlers.                                                               *)
(***************************************************************************)
\* the documents the server may hold: each entry has an id, and the ids are
\* pairwise different
ServerItems ==
    {s \in SeqUpTo(1..MaxId, MaxItems) : \A m, n \in 1..Len(s) : m # n => s[m] # s[n]}

ServerDocs ==
    {Registry([n \in 1..Len(s) |-> EntryElem(IdAttr(s[n]))]) : s \in ServerItems}

Init ==
    /\ elements = <<>>
    /\ synced = FALSE
    /\ pc = "idle"
    /\ server \in ServerDocs
    /\ op = "none"
    /\ PassIdle /\ AllocIdle /\ new = <<>> /\ SyncIdle /\ HistIdle

\* add_menu, confirmed: push and unsynced (main.rs 694-712)
AddMenu_NoUnsynced ==
    /\ pc = "idle"
    /\ Len(elements) < MaxElems
    /\ elements' = Append(elements, NewElement(None, TitleB, DescD, None))
    /\ op' = "add"
    /\ UNCHANGED <<synced, pc, passVars, allocVars, new, server, answer, entries_deleted,
                   fetched_registry, log, histVars,
                   response, sent>>

AddMenu ==
    /\ pc = "idle"
    /\ Len(elements) < MaxElems
    /\ elements' = Append(elements, NewElement(None, TitleB, DescD, None))
    /\ synced' = FALSE
    /\ op' = "add"
    /\ UNCHANGED <<pc, passVars, allocVars, new, server, answer, entries_deleted,
                   fetched_registry, log, histVars,
                   response, sent>>

\* remove_menu with an id of the list chosen: remove returns true, unsynced
\* (main.rs 715-738)
\* marking: whether the history variable marked records the record
RemoveMenuAs(marking) ==
    /\ pc = "idle"
    /\ \E n \in 1..Len(get_ids(elements, TRUE)) :
        LET num == get_ids(elements, TRUE)[n] IN
        /\ Position(elements, num) # 0
        /\ elements' = Remove(elements, num)
        /\ marked' = IF marking
                      THEN marked \cup {[id |-> num,
                                         title |-> elements[Position(elements, num)].title]}
                      ELSE marked
    /\ synced' = FALSE
    /\ op' = "remove"
    /\ UNCHANGED <<pc, passVars, allocVars, new, server, answer, entries_deleted,
                   fetched_registry, log, elements0, existing0, new0,
                   response, sent>>

RemoveMenu == RemoveMenuAs(FALSE)

\* another client changes the document on the server
ServerChange ==
    /\ pc = "idle"
    /\ server' \in ServerDocs \ {server}
    /\ UNCHANGED <<storeVars, pc, passVars, allocVars, new, answer, entries_deleted,
                   fetched_registry, log, op, histVars,
                   response, sent>>

\* sync, fetch returns Err, with the store marked unsynced on the way out
SyncFetchErr_Unsyncs ==
    /\ pc = "idle"
    /\ op' = "sync_err"
    /\ synced' = FALSE
    /\ UNCHANGED <<elements, pc, passVars, allocVars, new, server, answer,
                   entries_deleted, fetched_registry, log, histVars,
                   response, sent>>

\* sync, fetch fails: call or text returns Err and sync returns it (data.rs 494)
SyncFetchErr ==
    /\ pc = "idle"
    /\ op' = "sync_err"
    /\ UNCHANGED <<storeVars, pc, passVars, allocVars, new, server, answer,
                   entries_deleted, fetched_registry, log, histVars,
                   response, sent>>

\* what fetch returns for a response: the body when the content type is
\* text/xml, the empty string otherwise; the status is not read
\* (data.rs 351-357)
FetchResult(resp) == IF resp.xmlType THEN resp.body ELSE <<>>

\* the responses the server may give: any status, any content type, the
\* document it holds as the body
Responses ==
    {[success |-> ok, xmlType |-> x, body |-> server] : ok \in BOOLEAN, x \in BOOLEAN}

\* sync, fetch returns Ok (data.rs 494, 348-358)
SyncFetch ==
    /\ pc = "idle"
    /\ \E resp \in Responses :
        /\ response' = resp
        /\ xml' = FetchResult(resp)
    /\ elements0' = elements
    /\ log' = <<"fetch">>
    /\ pc' = "fetched"
    /\ UNCHANGED <<storeVars, rpos, ffwd, skip, modified, writer, ids, liveVars, allocVars, new,
                   server, answer, entries_deleted, fetched_registry, op, existing0,
                   new0, sent, marked>>

\* delete_removed(result) (data.rs 497)
SyncDelete ==
    /\ pc = "fetched"
    /\ LET st == DeleteRemoved(elements, xml) IN
        /\ elements' = st.elements
        /\ entries_deleted' = st.modified
        /\ answer' = st.out
    /\ log' = Append(log, "delete")
    /\ pc' = "deleted"
    /\ UNCHANGED <<synced, passVars, allocVars, new, server, fetched_registry, op,
                   histVars,
                   response, sent>>

\* from_str(&answer) is Ok: the entries and their ids (data.rs 499-506)
SyncDecode ==
    /\ pc = "deleted"
    /\ Decodes(answer)
    /\ fetched_registry' = Decode(answer)
    /\ existing_ids' = IdsOf(Filter(Decode(answer), TRUE))
    /\ existing0' = IdsOf(Filter(Decode(answer), TRUE))
    /\ new_ids' = <<>> /\ idx' = 1
    /\ log' = Append(log, "decode")
    /\ pc' = "alloc"
    /\ UNCHANGED <<storeVars, passVars, new_id, entries_added, new, server, answer,
                   entries_deleted, op, elements0, new0,
                   response, sent, marked>>

\* from_str(&answer) is Err and the run goes on with no fetched entry
SyncDecodePanic_Continues ==
    /\ pc = "deleted"
    /\ ~Decodes(answer)
    /\ fetched_registry' = <<>>
    /\ existing_ids' = <<>> /\ existing0' = <<>>
    /\ new_ids' = <<>> /\ idx' = 1
    /\ log' = Append(log, "decode")
    /\ pc' = "alloc"
    /\ UNCHANGED <<storeVars, passVars, new_id, entries_added, new, server, answer,
                   entries_deleted, op, elements0, new0,
                   response, sent, marked>>

\* from_str(&answer) is Err: unwrap panics (data.rs 499)
SyncDecodePanic ==
    /\ pc = "deleted"
    /\ ~Decodes(answer)
    /\ pc' = "panicked"
    /\ UNCHANGED <<storeVars, passVars, allocVars, new, syncVars, histVars>>

\* if entries_added { answer = insert_created_entries(answer, new_ids) }
\* (data.rs 510-512)
SyncInsert_KeepsAnswer ==
    /\ pc = "allocated"
    /\ IF entries_added
       THEN /\ answer' = answer
            /\ log' = Append(log, "insert")
       ELSE UNCHANGED <<answer, log>>
    /\ pc' = "inserted"
    /\ UNCHANGED <<storeVars, passVars, allocVars, new, server, entries_deleted,
                   fetched_registry, op, histVars,
                   response, sent>>

SyncInsert ==
    /\ pc = "allocated"
    /\ IF entries_added
       THEN /\ answer' = InsertCreatedEntries(elements, answer, new_ids)
            /\ log' = Append(log, "insert")
       ELSE UNCHANGED <<answer, log>>
    /\ pc' = "inserted"
    /\ UNCHANGED <<storeVars, passVars, allocVars, new, server, entries_deleted,
                   fetched_registry, op, histVars,
                   response, sent>>

needs_upload_AddedOnly == entries_added

needs_upload == entries_deleted \/ entries_added

\* the locals of sync are dropped when it returns
SyncLocalsDropped ==
    /\ xml' = <<>> /\ UNCHANGED <<rpos, ffwd, skip, modified, writer, ids, liveVars>>
    /\ existing_ids' = <<>> /\ new_ids' = <<>> /\ new_id' = 0 /\ idx' = 1
    /\ entries_added' = FALSE
    /\ new' = <<>>
    /\ answer' = <<>> /\ entries_deleted' = FALSE /\ fetched_registry' = <<>>
    /\ response' = NoResponse /\ sent' = <<>>
    /\ log' = <<>>
    /\ elements0' = <<>> /\ existing0' = <<>> /\ new0' = <<>>
    /\ UNCHANGED marked

\* if needs_upload { self.upload(answer.clone()) }: the call (data.rs 516-519)
SyncUploadCall ==
    /\ pc = "inserted"
    /\ needs_upload
    /\ sent' = Append(sent, answer)
    /\ pc' = "uploading"
    /\ UNCHANGED <<storeVars, passVars, allocVars, new, server, answer,
                   entries_deleted, fetched_registry, response, log, op, histVars>>

\* upload returns Err and the store is put back as it was when sync started
SyncUploadErr_RollsBack ==
    /\ pc = "uploading"
    /\ pc' = "idle"
    /\ op' = "sync_err"
    /\ elements' = elements0
    /\ SyncLocalsDropped
    /\ UNCHANGED <<synced, server>>

\* upload returns Err: sync returns it, the store stays as the passes left it
\* (data.rs 516-519)
SyncUploadErr_MarksSynced ==
    /\ pc = "uploading"
    /\ pc' = "idle"
    /\ op' = "sync_err"
    /\ synced' = TRUE
    /\ SyncLocalsDropped
    /\ UNCHANGED <<elements, server>>

SyncUploadErr ==
    /\ pc = "uploading"
    /\ pc' = "idle"
    /\ op' = "sync_err"
    /\ SyncLocalsDropped
    /\ UNCHANGED <<storeVars, server>>

\* upload returns Ok(status), the status is dropped: the server has taken the
\* document or refused it; add_new_elements starts (data.rs 516-522)
SyncUpload ==
    /\ pc = "uploading"
    /\ \E accepted \in BOOLEAN : server' = IF accepted THEN answer ELSE server
    /\ log' = Append(log, "upload")
    /\ new' = fetched_registry
    /\ new0' = fetched_registry
    /\ pc' = "merge"
    /\ UNCHANGED <<storeVars, passVars, allocVars, answer, entries_deleted,
                   fetched_registry, op, elements0, existing0,
                   response, sent, marked>>

\* nothing to upload: add_new_elements starts (data.rs 514-522)
SyncNoUpload_NoWait ==
    /\ pc = "inserted"
    /\ new' = fetched_registry
    /\ new0' = fetched_registry
    /\ pc' = "merge"
    /\ UNCHANGED <<storeVars, passVars, allocVars, syncVars, elements0, existing0, marked>>

SyncNoUpload ==
    /\ pc = "inserted"
    /\ ~needs_upload
    /\ new' = fetched_registry
    /\ new0' = fetched_registry
    /\ pc' = "merge"
    /\ UNCHANGED <<storeVars, passVars, allocVars, syncVars, elements0, existing0, marked>>

\* self.synced = true; Ok(()) (data.rs 524-526)
SyncReturn ==
    /\ pc = "merged"
    /\ synced' = TRUE
    /\ pc' = "idle"
    /\ op' = "sync_ok"
    /\ SyncLocalsDropped
    /\ UNCHANGED <<elements, server>>

Next ==
    \/ AddMenu \/ RemoveMenu \/ ServerChange
    \/ SyncFetchErr \/ SyncFetch \/ SyncDelete \/ SyncDecode \/ SyncDecodePanic
    \/ AllocEnter \/ GenDraw \/ GenReturn \/ AllocReturn
    \/ SyncInsert \/ SyncUploadCall \/ SyncUploadErr \/ SyncUpload \/ SyncNoUpload
    \/ MergeOne \/ MergeReturn \/ SyncReturn

Spec == Init /\ [][Next]_vars

(***************************************************************************)
(* SpecSync: sync runs on generated stores against generated server        *)
(* documents, the documents of other shapes and the malformed ones         *)
(* included                                                                *)
(***************************************************************************)
\* the documents the server may hold: those of the deletion pass and a
\* registry followed by text that is not well-formed
SyncDocs == DelDocs \cup {Registry(<<EntryElem(IdAttr(1))>>) \o <<ErrEv>>}

\* a store that holds a record without identifier is not synced (push is
\* followed by unsynced, main.rs 694-712)
InitSync ==
    /\ elements \in GenStores
    /\ synced \in BOOLEAN
    /\ synced => \A j \in 1..Len(elements) : elements[j].id # None
    /\ pc = "idle"
    /\ server \in SyncDocs
    /\ op = "none"
    /\ PassIdle /\ AllocIdle /\ new = <<>> /\ SyncIdle /\ HistIdle

NextSync ==
    \/ SyncFetchErr \/ SyncFetch \/ SyncDelete \/ SyncDecode \/ SyncDecodePanic
    \/ AllocEnter \/ GenDraw \/ GenReturn \/ AllocReturn
    \/ SyncInsert \/ SyncUploadCall \/ SyncUploadErr \/ SyncUpload \/ SyncNoUpload
    \/ MergeOne \/ MergeReturn \/ SyncReturn

SpecSync == InitSync /\ [][NextSync]_vars

(***************************************************************************)
(* SpecOwn: the program against a server whose document is changed by this *)
(* client's uploads only, each upload that returns Ok being stored; the    *)
(* history variable marked records what remove has marked                  *)
(***************************************************************************)
NextOwn ==
    \/ AddMenu \/ RemoveMenuAs(TRUE)
    \/ SyncFetchErr \/ SyncFetch \/ SyncDelete \/ SyncDecode \/ SyncDecodePanic
    \/ AllocEnter \/ GenDraw \/ GenReturn \/ AllocReturn
    \/ SyncInsert \/ SyncUploadCall \/ SyncUploadErr
    \/ (SyncUpload /\ server' = answer)
    \/ SyncNoUpload
    \/ MergeOne \/ MergeReturn \/ SyncReturn

SpecOwn == Init /\ [][NextOwn]_vars

(***************************************************************************)
(* SpecRemove: calls of remove(id) on generated stores; log records each   *)
(* call with its argument and the value it returned                        *)
(***************************************************************************)
\* the value remove(id) returns (data.rs 530, 532)
RemoveReturns(elems, id) == Position(elems, id) # 0

\* how many calls a run makes
MaxCalls == 2

InitRemove ==
    /\ elements \in GenStores
    /\ elements0 = elements /\ existing0 = <<>> /\ new0 = <<>>
    /\ marked = {}
    /\ synced \in BOOLEAN
    /\ synced => \A j \in 1..Len(elements) : elements[j].id # None
    /\ pc = "remove"
    /\ PassIdle /\ AllocIdle /\ new = <<>> /\ SyncIdle /\ server = <<>> /\ op = "none"

\* remove(id) (data.rs 529-533)
RemoveCall ==
    /\ pc = "remove"
    /\ Len(log) < MaxCalls
    /\ \E id \in 0..MaxId :
        /\ elements' = Remove(elements, id)
        /\ log' = Append(log, [id |-> id, ret |-> RemoveReturns(elements, id)])
    /\ UNCHANGED <<synced, pc, passVars, allocVars, new, server, answer,
                   entries_deleted, fetched_registry, response, sent, op, histVars>>

\* the caller is done with the store
RemoveDone ==
    /\ pc = "remove"
    /\ pc' = "removed"
    /\ UNCHANGED <<storeVars, passVars, allocVars, new, syncVars, histVars>>

NextRemove == RemoveCall \/ RemoveDone

SpecRemove == InitRemove /\ [][NextRemove]_vars

(***************************************************************************)
(* SpecIds: calls of get_ids between calls of remove on generated stores;  *)
(* op records the argument of the last call of get_ids, ids its result     *)
(***************************************************************************)
\* get_ids(ignore_removed) (data.rs 205-213)
GetIds ==
    /\ pc = "remove"
    /\ \E ignore_removed \in BOOLEAN :
        /\ ids' = get_ids(elements, ignore_removed)
        /\ op' = IF ignore_removed THEN "get_ids_true" ELSE "get_ids_false"
    /\ UNCHANGED <<storeVars, pc, xml, rpos, ffwd, skip, modified, writer, liveVars,
                   allocVars, new, server, answer, entries_deleted, fetched_registry,
                   response, sent, log, histVars>>

NextIds == RemoveCall \/ GetIds

SpecIds == InitRemove /\ [][NextIds]_vars

(***************************************************************************)
(* SpecWrite: AppElement::write on generated records, one after the other  *)
(* into one writer                                                         *)
(***************************************************************************)
\* records with and without id, due and removed
WriteRecords ==
    {[id |-> i, title |-> t, description |-> DescD, due |-> d, removed |-> r] :
        i \in {None, Some(1), Some(MaxId)},
        t \in {TitleA, TitleB},
        d \in {None, Some(0), Some(U16Max + 1)},
        r \in BOOLEAN}

InitWrite ==
    /\ elements \in SeqUpTo(WriteRecords, MaxElems)
    /\ elements0 = elements /\ existing0 = <<>> /\ new0 = <<>>
    /\ marked = {}
    /\ synced = FALSE
    /\ pc = "write"
    /\ PassIdle /\ AllocIdle /\ new = <<>> /\ SyncIdle /\ server = <<>> /\ op = "none"

\* write(&mut writer) of the next record (data.rs 108-134)
WriteOne ==
    /\ pc = "write"
    /\ idx <= Len(elements)
    /\ writer' = writer \o Write(elements[idx])
    /\ idx' = idx + 1
    /\ UNCHANGED <<storeVars, pc, xml, rpos, ffwd, skip, modified, ids, liveVars, existing_ids,
                   new_ids, new_id, entries_added, new, syncVars, histVars>>

WriteReturn ==
    /\ pc = "write"
    /\ idx > Len(elements)
    /\ pc' = "written"
    /\ UNCHANGED <<storeVars, passVars, allocVars, new, syncVars, histVars>>

NextWrite == WriteOne \/ WriteReturn

SpecWrite == InitWrite /\ [][NextWrite]_vars

(***************************************************************************)
(* AppState::live_get_by_id: the entry the server returns, flattened to     *)
(* text. A string is the sequence of the pieces pushed to it.              *)
(***************************************************************************)
\* the entities BytesText::unescape resolves (character references, &#..;,
\* do not occur in the texts generated below)
Entities ==
    {<<"l", "t">>, <<"g", "t">>, <<"a", "m", "p">>,
     <<"a", "p", "o", "s">>, <<"q", "u", "o", "t">>}

EntityChar(name) ==
    CASE name = <<"l", "t">> -> "<"
      [] name = <<"g", "t">> -> ">"
      [] name = <<"a", "m", "p">> -> "&"
      [] name = <<"a", "p", "o", "s">> -> "'"
      [] OTHER -> "\""

\* the position of the first ; of t at or after n, 0 when there is none
RECURSIVE FirstSemi(_, _)
FirstSemi(t, n) ==
    IF n > Len(t) THEN 0 ELSE IF t[n] = ";" THEN n ELSE FirstSemi(t, n + 1)

\* txt.unescape(): the text with its entity references resolved, None for
\* the Err it returns on an & without ; or on an entity it does not know
\* (data.rs 273)
RECURSIVE Unescape(_)
Unescape(t) ==
    IF t = <<>> THEN Some(<<>>)
    ELSE IF Head(t) # "&"
    THEN LET r == Unescape(Tail(t)) IN
         IF r = None THEN None ELSE Some(<<Head(t)>> \o Unwrap(r))
    ELSE LET s == FirstSemi(t, 2) IN
         IF s = 0 THEN None
         ELSE IF SubSeq(t, 2, s - 1) \notin Entities THEN None
         ELSE LET r == Unescape(SubSeq(t, s + 1, Len(t))) IN
              IF r = None THEN None
              ELSE Some(<<EntityChar(SubSeq(t, 2, s - 1))>> \o Unwrap(r))

\* " ".repeat(n) (data.rs 266)
Spaces(n) == [i \in 1..n |-> " "]

\* a Text event read while enabled, with the unwrap of its unescape
\* (data.rs 271-275)
LiveText(st, e) ==
    IF Unescape(e.txt) = None
    THEN [st EXCEPT !.fail = "unwrap"]
    ELSE [st EXCEPT !.result = @ \o Unwrap(Unescape(e.txt))]

\* one turn of the loop on an event that is not Eof or Err: the arms of the
\* match in their order (data.rs 257-283); indentation is a usize, the
\* decrement at 0 is left as the failure "underflow"
LiveStep(st, e) ==
    IF e.k = "Start" /\ e.tag = "entry" THEN [st EXCEPT !.enabled = TRUE]
    ELSE IF e.k = "End" /\ e.tag = "entry" THEN [st EXCEPT !.enabled = FALSE]
    ELSE IF e.k = "Start" /\ st.enabled
    THEN [st EXCEPT !.result = @ \o Spaces(st.indentation) \o <<e.tag, ": ">>,
                    !.indentation = @ + 1]
    ELSE IF e.k = "Text" /\ st.enabled THEN LiveText(st, e)
    ELSE IF e.k = "End" /\ st.enabled
    THEN (IF st.indentation = 0
          THEN [st EXCEPT !.result = @ \o <<"\n">>, !.fail = "underflow"]
          ELSE [st EXCEPT !.result = @ \o <<"\n">>, !.indentation = @ - 1])
    ELSE st

(***************************************************************************)
(* SpecLive: live_get_by_id against generated responses                    *)
(***************************************************************************)
\* texts: plain, with an entity unescape resolves, with one it does not
LiveTexts == {TitleA, <<"&", "l", "t", ";">>, <<"a", "&", "x", ";">>}

\* an entry as AppElement::write emits it, with name t and a description
\* that holds a child element
LiveEntry(i, t) ==
    <<Start("entry", IdAttr(i)),
      Start("name", <<>>), Text(t), End("name"),
      Start("description", <<>>), Start("b", <<>>), Text(DescD), End("b"),
      End("description"),
      End("entry")>>

\* an element that is not an entry
Meta == <<Start("meta", <<>>), Text(<<"m">>), End("meta")>>

\* the bodies the server may return: one entry, alone, in a registry or
\* between other elements; and other shapes: no entry, an entry with text
\* and a self-closing child only, two entries, an entry in an entry, an
\* entry cut off by a parse error, the empty text
LiveDocs ==
    UNION {{LiveEntry(i, t),
            Registry(<<LiveEntry(i, t)>>),
            Registry(<<Meta, LiveEntry(i, t), Meta>>)} :
              i \in 1..MaxId, t \in LiveTexts}
    \cup {Registry(<<Meta>>),
          <<Start("entry", IdAttr(1)), Text(TitleA), Empty("due", <<>>), End("entry")>>,
          Registry(<<LiveEntry(1, TitleA), LiveEntry(MaxId, TitleA)>>),
          <<Start("entry", IdAttr(1)), Start("entry", <<>>), End("entry")>>
              \o Body \o <<End("entry")>>,
          <<>>}
    \cup {SubSeq(Registry(<<Meta, LiveEntry(1, TitleA)>>), 1, n) \o <<ErrEv>> :
              n \in {2, 5, 7, 10}}

InitLive ==
    /\ elements = <<>>
    /\ synced = FALSE
    /\ pc = "live"
    /\ server \in LiveDocs
    /\ op = "none"
    /\ PassIdle /\ AllocIdle /\ new = <<>> /\ SyncIdle /\ HistIdle

\* call or res.text() returns Err: live_get_by_id returns it (data.rs 241, 248)
LiveCallErr ==
    /\ pc = "live"
    /\ pc' = "live_err"
    /\ UNCHANGED <<storeVars, passVars, allocVars, new, syncVars, histVars>>

\* the response has come: Ok(result) at once unless the content type is
\* text/xml, the reader on its body otherwise (data.rs 241-254)
LiveResponse ==
    /\ pc = "live"
    /\ \E resp \in Responses :
        /\ response' = resp
        /\ xml' = FetchResult(resp)
        /\ pc' = IF resp.xmlType THEN "flatten" ELSE "flattened"
    /\ UNCHANGED <<storeVars, rpos, ffwd, skip, modified, writer, ids, liveVars,
                   allocVars, new, server, answer, entries_deleted, fetched_registry,
                   sent, log, op, histVars>>

\* one turn of the loop (data.rs 256-284)
LiveRead ==
    /\ pc = "flatten"
    /\ ~AtEnd(xml, rpos)
    /\ LET st == LiveStep([enabled |-> enabled, indentation |-> indentation,
                           result |-> result, fail |-> ""], xml[rpos + 1]) IN
        /\ enabled' = st.enabled
        /\ indentation' = st.indentation
        /\ result' = st.result
        /\ pc' = IF st.fail = "" THEN "flatten" ELSE "panicked"
        /\ op' = IF st.fail = "" THEN op ELSE st.fail
    /\ rpos' = rpos + 1
    /\ UNCHANGED <<storeVars, xml, ffwd, skip, modified, writer, ids, allocVars, new,
                   server, answer, entries_deleted, fetched_registry, response,
                   sent, log, histVars>>

\* Eof or Err: break and Ok(result) (data.rs 280-281, 287)
LiveReturn ==
    /\ pc = "flatten"
    /\ AtEnd(xml, rpos)
    /\ pc' = "flattened"
    /\ UNCHANGED <<storeVars, passVars, allocVars, new, syncVars, histVars>>

NextLive == LiveCallErr \/ LiveResponse \/ LiveRead \/ LiveReturn

SpecLive == InitLive /\ [][NextLive]_vars

(***************************************************************************)
(* The document delete_removed is to produce, stated without its skip      *)
(* variables: the input with each dropped entry removed from its start tag *)
(* to the end tag that balances it.                                        *)
(***************************************************************************)
\* an entry start is dropped when one of its id attributes parses to the
\* identifier of a record whose first holder in the store is a tombstone
RefDrops(e, store) ==
    /\ e.k = "Start" /\ e.tag = "entry"
    /\ \E m \in 1..Len(e.attrs) :
          /\ LocalName(e.attrs[m].key) = "id"
          /\ ParseU16(e.attrs[m].val) # None
          /\ \E j \in 1..Len(store) :
                /\ store[j].id = ParseU16(e.attrs[m].val)
                /\ store[j].removed
                /\ \A i \in 1..(j - 1) : store[i].id # store[j].id

\* the store without the tombstones that start e matches
RefStoreAfter(e, store) ==
    LET gone == {j \in 1..Len(store) :
                    /\ store[j].removed
                    /\ \A i \in 1..(j - 1) : store[i].id # store[j].id
                    /\ \E m \in 1..Len(e.attrs) :
                          /\ LocalName(e.attrs[m].key) = "id"
                          /\ ParseU16(e.attrs[m].val) = store[j].id}
        keep == {j \in 1..Len(store) : j \notin gone}
        nth[n \in 0..Len(store)] ==
            IF n = 0 THEN 0 ELSE CHOOSE j \in keep : j > nth[n - 1] /\
                                    \A i \in keep : i > nth[n - 1] => j <= i
    IN [n \in 1..Cardinality(keep) |-> store[nth[n]]]

RECURSIVE BalancedEnd(_, _, _)
\* the index of the End that closes the element opened before index n at
\* nesting depth d; Len(evs) + 1 when the sequence ends first
BalancedEnd(evs, n, d) ==
    IF n > Len(evs) THEN n
    ELSE IF evs[n].k = "Start" THEN BalancedEnd(evs, n + 1, d + 1)
    ELSE IF evs[n].k = "End" THEN (IF d = 1 THEN n ELSE BalancedEnd(evs, n + 1, d - 1))
    ELSE BalancedEnd(evs, n + 1, d)

RECURSIVE RefDelete(_, _)
RefDelete(evs, store) ==
    IF evs = <<>> THEN <<>>
    ELSE IF RefDrops(Head(evs), store)
         THEN RefDelete(SubSeq(evs, BalancedEnd(evs, 2, 1) + 1, Len(evs)),
                        RefStoreAfter(Head(evs), store))
         ELSE <<Head(evs)>> \o RefDelete(Tail(evs), store)

(***************************************************************************)
(* C1..C5: the passes and the serializer                                   *)
(***************************************************************************)
\* C1 (as claimed): when delete_removed has returned, no identifier of a
\* record that was marked removed and occurred as the id of an entry of the
\* input occurs as the id of an entry of the output.
C1_NoRemovedEntryLeft ==
    pc = "deleted" =>
        \A j \in 1..Len(elements0) :
            (elements0[j].removed /\ elements0[j].id # None
             /\ HasEntry(Delivered(xml), Unwrap(elements0[j].id)))
            => ~HasEntry(writer, Unwrap(elements0[j].id))

C5_RoundTrip ==
    pc = "deleted" =>
        \A j \in 1..Len(elements0) :
            (elements0[j].removed /\ elements0[j].id # None
             /\ xml = Registry(<<Write(elements0[j])>>))
            => /\ ~HasEntry(writer, Unwrap(elements0[j].id))
               /\ modified
               /\ \A i \in 1..Len(elements) : elements[i] # elements0[j]

\* C5 witness: the pass has run on the serialization of a tombstone of the store
C5_Witness ==
    /\ pc = "deleted"
    /\ \E j \in 1..Len(elements0) :
          /\ elements0[j].removed
          /\ xml = Registry(<<Write(elements0[j])>>)
          /\ Len(elements) = Len(elements0) - 1
    /\ writer = Registry(<<>>)

\* the number of entry elements of doc whose id attribute reads v
CountEntries(doc, v) ==
    Cardinality({n \in 1..Len(doc) :
        /\ doc[n].k \in {"Start", "Empty"}
        /\ doc[n].tag = "entry"
        /\ \E m \in 1..Len(doc[n].attrs) :
              /\ doc[n].attrs[m].key = "id"
              /\ ParseU16(doc[n].attrs[m].val) = Some(v)})

\* the number of records of elems that carry identifier o
CountId(elems, o) == Cardinality({j \in 1..Len(elems) : elems[j].id = o})

RECURSIVE NthMissing(_, _, _)
\* the index of the n-th record without identifier at or after index from
NthMissing(elems, n, from) ==
    IF n = 1 THEN NextMissing(elems, from)
    ELSE NthMissing(elems, n - 1, NextMissing(elems, from) + 1)

\* C3: every identifier generate_id has returned in this batch is non-zero,
\* not in the set the batch started with, different from the ones returned
\* before it, stored in the record it was generated for, and pushed to the set.
C3_FreshIds ==
    /\ existing_ids = existing0 \o new_ids
    /\ \A n \in 1..Len(new_ids) :
          /\ new_ids[n] # 0
          /\ new_ids[n] \notin Range(existing0)
          /\ \A m \in 1..(n - 1) : new_ids[m] # new_ids[n]
          /\ elements[NthMissing(elements0, n, 1)].id = Some(new_ids[n])

\* C3 witness: a batch of two allocations has returned
C3_Witness ==
    pc = "allocated" /\ Len(new_ids) = 2 /\ entries_added /\ existing0 # <<>>

\* the first record of elems carrying each identifier of idseq, in store order
FirstCreated(elems, idseq) ==
    Created([j \in 1..Len(elems) |->
                IF \E i \in 1..(j - 1) : elems[i].id = elems[j].id
                THEN [elems[j] EXCEPT !.id = None] ELSE elems[j]],
            idseq)

\* C4 (as claimed): for a document whose first event is the registry root,
\* start tag or self-closing, and which holds none of the identifiers of N,
\* the output is the root, then one serialized entry per identifier of N in
\* store order, then the rest of the input unchanged.
C4_OneEntryPerId ==
    (/\ pc = "inserted"
     /\ xml # <<>>
     /\ xml[1].tag = "registry"
     /\ Delivered(xml) = xml
     /\ \A n \in 1..Len(ids) : ~HasEntry(xml, ids[n]))
    => /\ writer = <<xml[1]>> \o WriteAll(FirstCreated(elements, ids)) \o Tail(xml)
       /\ \A n \in 1..Len(ids) : CountEntries(writer, ids[n]) = 1

\* C6 (as claimed): when add_new_elements is over, every remote record with an
\* identifier that no local record carried has added exactly one record, and
\* one whose identifier was carried has added none.
C6_MergeAddsOnce ==
    pc \in {"merged", "diverged"} =>
        \A n \in 1..Len(new0) :
            new0[n].id # None =>
                CountId(elements, new0[n].id) =
                    (IF CountId(elements0, new0[n].id) > 0
                     THEN CountId(elements0, new0[n].id) ELSE 1)

\* C7 (as claimed): the comparison of the remote record being merged with any
\* local record returns, and returns true iff both identifiers are present and
\* equal; the merge never fails to return.
C7_EqualityReturns ==
    /\ pc # "diverged"
    /\ (pc = "merge" /\ new # <<>>) =>
          \A n \in 1..Len(elements) :
              /\ EqReturns(Head(new), elements[n])
              /\ EqValue(Head(new), elements[n])
                 <=> (Head(new).id # None /\ elements[n].id # None
                      /\ Head(new).id = elements[n].id)

\* what C6 says of the runs in which every comparison returns
MergeAddsOnceWhenReturned ==
    pc = "merged" =>
        \A n \in 1..Len(new0) :
            new0[n].id # None =>
                CountId(elements, new0[n].id) =
                    (IF CountId(elements0, new0[n].id) > 0
                     THEN CountId(elements0, new0[n].id) ELSE 1)

\* C8: in every state the program reaches between two handlers, any two
\* records of the store that are not removed and both carry an identifier
\* carry different identifiers (the server's documents have pairwise
\* different identifiers).
C8_UniqueIds ==
    pc = "idle" =>
        \A i, j \in 1..Len(elements) :
            (/\ i # j
             /\ ~elements[i].removed /\ ~elements[j].removed
             /\ elements[i].id # None /\ elements[j].id # None)
            => elements[i].id # elements[j].id

\* the steps a sync that returns Ok has completed, in their order
StepsOfSync ==
    <<"fetch", "delete", "decode", "allocate">>
    \o (IF entries_added THEN <<"insert">> ELSE <<>>)
    \o (IF needs_upload THEN <<"upload">> ELSE <<>>)
    \o <<"merge">>

\* C9: synced is false at construction, and every step that turns synced from
\* false to true is the return of a sync whose fetch returned Ok, whose
\* deletion pass and decoding completed, whose upload, when one was needed,
\* returned Ok, and whose merge has visited every fetched record.
C9_SyncedOnlyBySync ==
    /\ ~synced
    /\ [][(~synced /\ synced') =>
            (/\ pc = "merged" /\ pc' = "idle"
             /\ log = StepsOfSync
             /\ new = <<>>
             /\ op' = "sync_ok")]_vars

\* C9, witness: a sync has returned Ok after it created and uploaded a record
C9_Witness ==
    /\ pc = "idle" /\ synced /\ op = "sync_ok"
    /\ \E i \in 1..Len(elements) :
          elements[i].title = TitleB /\ elements[i].id # None

C11_FailedSyncUnsynced == op = "sync_err" => ~synced

\* the document after the deletion pass of the running sync, and whether the
\* pass dropped a subtree; whether a record was without identifier when the
\* sync started
DocAfterDelete == DeleteRemoved(elements0, xml).out
SubtreeDropped == DocAfterDelete # xml
IdAllocated == \E i \in 1..Len(elements0) : elements0[i].id = None

\* C12: a sync run hands a document to upload iff its deletion pass dropped a
\* subtree or a record was allocated an identifier in the run; it does so at
\* most once, and the document is the one after the deletion pass and, when
\* an identifier was allocated, the insertion pass.
C12_ConditionalUpload ==
    /\ Len(sent) <= 1
    /\ sent # <<>> =>
          /\ pc \in {"uploading", "merge", "merged", "diverged"}
          /\ SubtreeDropped \/ IdAllocated
          /\ sent[1] = IF IdAllocated
                       THEN InsertCreatedEntries(elements, DocAfterDelete, new_ids)
                       ELSE DocAfterDelete
    /\ (pc \in {"uploading", "merge", "merged"} /\ (SubtreeDropped \/ IdAllocated))
          => Len(sent) = 1

\* C12, witness: a run whose deletion pass dropped a subtree and that allocated
\* no identifier has uploaded and merged
C12_Witness ==
    /\ pc = "merged" /\ Len(sent) = 1
    /\ SubtreeDropped /\ ~IdAllocated

\* C13: for every response, fetch returns the body when the status is a
\* success and the content type is text/xml, and the empty document when the
\* status is not a success or the content type is another one.
C13_FetchDegrades ==
    pc = "fetched" =>
        xml = IF response.success /\ response.xmlType THEN response.body ELSE <<>>

\* C14: a sync run whose fetch response has a content type other than
\* text/xml does not abort: it goes on through its steps with the empty
\* document.
C14_NonXmlContinues ==
    (log # <<>> /\ ~response.xmlType) => (xml = <<>> /\ pc # "panicked")

\* the events write is to emit for a record with identifier: what the element
\* of the given name looks like, and the length of the whole
IsElement(evs, n, name, txt) ==
    /\ evs[n] = [k |-> "Start", tag |-> name, attrs |-> <<>>, txt |-> <<>>]
    /\ evs[n + 1] = [k |-> "Text", tag |-> "", attrs |-> <<>>, txt |-> txt]
    /\ evs[n + 2] = [k |-> "End", tag |-> name, attrs |-> <<>>, txt |-> <<>>]

IsSerialized(evs, e) ==
    IF e.id = None THEN evs = <<>>
    ELSE /\ Len(evs) = IF e.due = None THEN 8 ELSE 11
         /\ evs[1].k = "Start" /\ evs[1].tag = "entry"
         /\ Len(evs[1].attrs) = 1
         /\ evs[1].attrs[1].key = "id"
         /\ ParseU16(evs[1].attrs[1].val) = e.id
         /\ IsElement(evs, 2, "name", e.title)
         /\ IsElement(evs, 5, "description", e.description)
         /\ e.due # None =>
               /\ evs[8] = [k |-> "Start", tag |-> "due", attrs |-> <<>>, txt |-> <<>>]
               /\ evs[9].k = "Text" /\ ParseU32(evs[9].txt) = e.due
               /\ evs[9].txt = StripZeros(evs[9].txt)
               /\ evs[10] = [k |-> "End", tag |-> "due", attrs |-> <<>>, txt |-> <<>>]
         /\ evs[Len(evs)] = [k |-> "End", tag |-> "entry", attrs |-> <<>>, txt |-> <<>>]

\* the number of events written for the first n records
RECURSIVE WrittenUpTo(_, _)
WrittenUpTo(elems, n) ==
    IF n = 0 THEN 0
    ELSE WrittenUpTo(elems, n - 1)
         + (IF elems[n].id = None THEN 0 ELSE IF elems[n].due = None THEN 8 ELSE 11)

\* C15: write emits nothing for a record without identifier; for a record
\* with identifier it emits the entry start with the id attribute, the name
\* element, the description element, the due element iff due is present, and
\* the entry end, in this order; the removed flag has no influence.
C15_WriteEvents ==
    /\ Len(writer) = WrittenUpTo(elements, idx - 1)
    /\ \A n \in 1..(idx - 1) :
          IsSerialized(SubSeq(writer, WrittenUpTo(elements, n - 1) + 1,
                              WrittenUpTo(elements, n)), elements[n])
    /\ \A m, n \in 1..(idx - 1) :
          elements[m] = [elements[n] EXCEPT !.removed = ~elements[n].removed]
          => SubSeq(writer, WrittenUpTo(elements, m - 1) + 1, WrittenUpTo(elements, m))
             = SubSeq(writer, WrittenUpTo(elements, n - 1) + 1, WrittenUpTo(elements, n))

\* C15, witness: a record with due and its tombstone have both been written
C15_Witness ==
    /\ pc = "written"
    /\ Len(elements) = 2
    /\ elements[1].due # None /\ elements[1].id # None
    /\ elements[2] = Tombstone(elements[1])
    /\ Len(writer) = 22

\* the steps a run has completed when it stands at pc
StepsAt(at) ==
    LET upTo(n) == SubSeq(<<"fetch", "delete", "decode", "allocate">>, 1, n)
        insert == IF entries_added THEN <<"insert">> ELSE <<>>
        upload == IF needs_upload THEN <<"upload">> ELSE <<>>
    IN CASE at = "fetched" -> upTo(1)
         [] at \in {"deleted", "panicked"} -> upTo(2)
         [] at \in {"alloc", "generate"} -> upTo(3)
         [] at = "allocated" -> upTo(4)
         [] at \in {"inserted", "uploading"} -> upTo(4) \o insert
         [] at \in {"merge", "diverged"} -> upTo(4) \o insert \o upload
         [] at = "merged" -> upTo(4) \o insert \o upload \o <<"merge">>
         [] OTHER -> <<>>

\* C16: in every sync run the steps occur in the order fetch, deletion pass,
\* decode, identifier allocation, insertion pass (only if an identifier was
\* allocated), upload (only if needed), merge; each step is completed once at
\* most, the upload is called after the passes and has returned before the
\* merge starts, and the merge has visited no record before.
C16_PipelineOrder ==
    /\ log = StepsAt(pc)
    /\ Len(sent) <= 1
    /\ sent # <<>> => pc \in {"uploading", "merge", "merged", "diverged"}
    /\ pc = "uploading" => sent = <<answer>>
    /\ pc \notin {"merge", "merged", "diverged"} => (new = <<>> /\ new0 = <<>>)
    /\ pc = "fetched" => (elements = elements0 /\ answer = <<>>)
    /\ pc \in {"merge", "merged"} => (needs_upload <=> Len(sent) = 1)

\* C16, witness: a run has completed every step, the two conditional ones too
C16_Witness ==
    /\ pc = "merged"
    /\ log = <<"fetch", "delete", "decode", "allocate", "insert", "upload", "merge">>

\* the running sync started from a store of one record without identifier
\* (at index ia) and one tombstone with identifier b (at index ib), and fetched
\* a document with an entry for b and an entry c
IsScenario(ia, ib, b, c) ==
    /\ Len(elements0) = 2 /\ {ia, ib} = {1, 2}
    /\ elements0[ia].id = None /\ ~elements0[ia].removed
    /\ elements0[ib].id = Some(b) /\ elements0[ib].removed
    /\ b # c
    /\ xml \in {Registry(<<EntryElem(IdAttr(b)), EntryElem(IdAttr(c))>>),
               Registry(<<EntryElem(IdAttr(c)), EntryElem(IdAttr(b))>>)}

FreeIdExists == \E c \in 1..MaxId : c \notin Range(existing_ids)

\* C18: under a fair choice of candidates generate_id returns whenever a
\* non-zero identifier is not in use, and it does not return when every
\* non-zero identifier is in use.
C18_AllocTerminates ==
    /\ [](( pc = "generate" /\ FreeIdExists) => <>(pc = "alloc"))
    /\ [][(pc = "generate" /\ ~FreeIdExists) => pc' = "generate"]_vars

\* C18, witness: with identifiers in use, the loop has drawn a free one and
\* is about to return
C18_Witness ==
    /\ pc = "generate"
    /\ existing_ids # <<>>
    /\ new_id # 0 /\ new_id \notin Range(existing_ids)

\* the number of entry elements that begin in doc
EntryStarts(doc) ==
    Cardinality({n \in 1..Len(doc) : doc[n].k \in {"Start", "Empty"} /\ doc[n].tag = "entry"})

\* the number of entry subtrees the pass has dropped
SubtreesDropped == EntryStarts(Delivered(xml)) - EntryStarts(writer)

\* C19 (as claimed): delete_removed returns changed = true iff it dropped at
\* least one entry subtree; the number of records it removed from the store
\* is the number of subtrees it dropped; with changed = false the store and
\* the events of the document are unchanged.
C19_ChangedFlag ==
    pc = "deleted" =>
        /\ modified <=> SubtreesDropped > 0
        /\ Len(elements0) - Len(elements) = SubtreesDropped
        /\ ~modified => (elements = elements0 /\ writer = Delivered(xml))

\* C20: when the document left by the deletion pass does not decode as a
\* registry, sync returns an error to its caller: the process does not crash.
C20_DecodeFailureReturns == ~Decodes(answer) => pc # "panicked"

\* the root element of doc is closed by the last event of doc
Complete(doc) ==
    /\ doc # <<>>
    /\ doc[1].k = "Start"
    /\ NestEnd(doc, 1, <<>>) = Len(doc)

\* the reader of the deletion pass stops at a parse error before the root
\* element is closed
TruncatedFetch ==
    /\ Delivered(xml) # xml
    /\ ~Complete(Delivered(xml))

StoreAfterPasses ==
    LET d == DeleteRemoved(elements0, xml).elements IN
        /\ Len(elements) = Len(d)
        /\ \A j \in 1..Len(elements) :
              /\ elements[j].id # None
              /\ [elements[j] EXCEPT !.id = d[j].id] = d[j]
        /\ entries_deleted => Len(elements) < Len(elements0)
        /\ entries_added => \E j \in 1..Len(d) : d[j].id = None

\* C22: when the upload of a sync returns an error, sync returns with the
\* store as the deletion pass and the allocation left it (dropped tombstones
\* gone, allocated identifiers kept), without the merge and with synced as it
\* was
C22_NoRollback ==
    [][(pc = "uploading" /\ pc' = "idle")
        => /\ op' = "sync_err"
           /\ StoreAfterPasses
           /\ new = <<>>
           /\ elements' = elements
           /\ synced' = synced]_vars

\* C22 witness: a sync has failed at the upload: the one record of the store
\* was created locally and has the identifier that sync gave it, the server
\* has no entry for it, nothing was merged and the store is not synced
C22_Witness ==
    /\ pc = "idle" /\ op = "sync_err"
    /\ Len(elements) = 1
    /\ elements[1].title = TitleB
    /\ elements[1].id # None
    /\ ~HasEntry(server, Unwrap(elements[1].id))
    /\ ~synced

\* the entry start tags among the events the reader delivers
LiveEntryStarts == {n \in 1..Len(Delivered(xml)) :
                       Delivered(xml)[n].k = "Start" /\ Delivered(xml)[n].tag = "entry"}

\* the body holds exactly one entry subtree
SingleEntry == Cardinality(LiveEntryStarts) = 1

\* the positions of the start of the entry and of its end (past the last
\* event delivered when the entry is cut off)
LiveEntryStart == CHOOSE n \in LiveEntryStarts : TRUE
LiveEntryEnd ==
    LET ends == {n \in (LiveEntryStart + 1)..Len(Delivered(xml)) :
                    Delivered(xml)[n].k = "End" /\ Delivered(xml)[n].tag = "entry"} IN
    IF ends = {} THEN Len(Delivered(xml)) + 1
    ELSE CHOOSE n \in ends : \A m \in ends : n <= m

\* event n is strictly inside the entry subtree
Inside(n) == LiveEntryStart < n /\ n < LiveEntryEnd

\* the elements of the entry subtree open before event n
DepthAt(n) ==
    Cardinality({m \in (LiveEntryStart + 1)..(n - 1) : xml[m].k = "Start"})
    - Cardinality({m \in (LiveEntryStart + 1)..(n - 1) : xml[m].k = "End"})

\* the content of a text, entity references resolved where they can be
Content(t) == IF Unescape(t) = None THEN t ELSE Unwrap(Unescape(t))

\* C23: on a body with one entry subtree live_get_by_id builds its text from
\* the events strictly inside the subtree (a Start appends depth spaces, the
\* tag name and ": " and increments the depth, a Text appends its content, an
\* End appends a newline and decrements the depth), every other event
\* appends nothing, the depth is never negative, no turn of the loop ends the
\* call other than by a return, and a body of another content type gives
\* the empty text
C23_Flattener ==
    /\ [](indentation >= 0)
    /\ []((pc = "flattened" /\ ~response.xmlType) => result = <<>>)
    /\ [][(pc = "flatten" /\ rpos' = rpos + 1 /\ SingleEntry)
          => LET n == rpos + 1 IN
             /\ pc' = "flatten"
             /\ IF ~Inside(n) THEN result' = result /\ indentation' = indentation
                ELSE CASE xml[n].k = "Start" ->
                            /\ result' = result \o Spaces(DepthAt(n)) \o <<xml[n].tag, ": ">>
                            /\ indentation' = indentation + 1
                       [] xml[n].k = "Text" ->
                            /\ result' = result \o Content(xml[n].txt)
                            /\ indentation' = indentation
                       [] xml[n].k = "End" ->
                            /\ result' = result \o <<"\n">>
                            /\ indentation' = indentation - 1
                       [] OTHER -> result' = result /\ indentation' = indentation]_vars

\* C24: when the store is synced, every record of it that is not removed has
\* an entry with its identifier in the document of the server (the server
\* document being changed by this client's stored uploads only), also after
\* a sync that failed at the upload
C24_CreatedReachServer ==
    synced =>
        \A j \in 1..Len(elements) :
            ~elements[j].removed
            => /\ elements[j].id # None
               /\ HasEntry(server, Unwrap(elements[j].id))

\* C25: a record that remove has marked does not come back: in no later
\* state does the store hold a record with its identifier and title that is
\* not marked removed (the server document being changed by this client's
\* stored uploads only). The records looked at are those merged from the
\* server (title a); a record created locally (title b) that is given the
\* identifier of a marked one is another record
C25_RemovedStaysRemoved ==
    \A m \in marked :
        m.title = TitleA
        => \A j \in 1..Len(elements) :
              (elements[j].id = Some(m.id) /\ elements[j].title = m.title)
              => elements[j].removed

\* C26: the skip state machine of delete_removed. In copy mode the skip
\* target is empty; a turn of the loop enters skip mode exactly when it
\* drops an entry start tag (the event is not written, a record is removed,
\* the tag becomes the skip target); in skip mode no event is written and
\* no record is removed, and the mode is left exactly by the first End event
\* with the tag of the skip target, which is not written either; on a
\* well-formed flat document the pass returns in copy mode
C26_SkipMachine ==
    /\ [](~ffwd => skip = Start("", <<>>))
    /\ [](ffwd => (skip.k = "Start" /\ skip.tag = "entry"))
    /\ []((pc = "deleted" /\ Flat(xml) /\ Delivered(xml) = xml) => ~ffwd)
    /\ [][(pc = "delete" /\ rpos' = rpos + 1)
          => LET e == xml[rpos + 1] IN
             IF ffwd
             THEN /\ writer' = writer
                  /\ elements' = elements
                  /\ ffwd' <=> ~(e.k = "End" /\ e.tag = skip.tag)
                  /\ ffwd' => skip' = skip
             ELSE /\ ffwd' <=> (writer' = writer)
                  /\ ~ffwd' => (writer' = Append(writer, e) /\ elements' = elements)
                  /\ ffwd' => /\ e.k = "Start" /\ e.tag = "entry"
                              /\ skip' = e
                              /\ Len(elements') < Len(elements)]_vars

\* C26 witness: on a well-formed flat document the pass has dropped an
\* entry, left skip mode at its end tag and copied a later entry; it has
\* returned in copy mode
C26_Witness ==
    /\ pc = "deleted"
    /\ Flat(xml) /\ Delivered(xml) = xml
    /\ modified
    /\ ~ffwd
    /\ \E i \in 1..MaxId : HasEntry(writer, i)

\* the positions of elems0 that are kept, in order, give elems
RECURSIVE IsSubsequence(_, _)
IsSubsequence(elems, elems0) ==
    IF elems = <<>> THEN TRUE
    ELSE IF elems0 = <<>> THEN FALSE
    ELSE IF Head(elems) = Head(elems0)
         THEN IsSubsequence(Tail(elems), Tail(elems0))
              \/ IsSubsequence(elems, Tail(elems0))
    ELSE IsSubsequence(elems, Tail(elems0))

\* how many records of elems equal r
CountOf(elems, r) == Cardinality({j \in 1..Len(elems) : elems[j] = r})

\* the identifier v is the value of an attribute with local name id of an
\* entry start tag among the first n events of doc
IdOccurs(doc, n, v) ==
    \E m \in 1..n :
        /\ doc[m].k = "Start" /\ doc[m].tag = "entry"
        /\ \E a \in 1..Len(doc[m].attrs) :
              /\ LocalName(doc[m].attrs[a].key) = "id"
              /\ ParseU16(doc[m].attrs[a].val) = Some(v)

\* C27: delete_removed changes the store only by removing records: the
\* records left are the records it started with, unchanged and in the same
\* order; every record that is gone was marked removed and its identifier
\* occurs in the document read so far; synced is not changed
C27_DeleteFrame ==
    /\ [](pc \in {"delete", "deleted"} =>
            /\ IsSubsequence(elements, elements0)
            /\ \A j \in 1..Len(elements0) :
                  CountOf(elements, elements0[j]) < CountOf(elements0, elements0[j])
                  => /\ elements0[j].removed
                     /\ elements0[j].id # None
                     /\ IdOccurs(xml, rpos, Unwrap(elements0[j].id)))
    /\ [][pc = "delete" => synced' = synced]_vars

\* C27 witness: the pass has returned after removing a tombstone whose
\* identifier is in the document, with a record left in the store
C27_Witness ==
    /\ pc = "deleted"
    /\ Len(elements) < Len(elements0)
    /\ elements # <<>>

\* C28: a sync whose fetch returns an error leaves the records (their
\* number, order, identifiers, fields and removed flags) and synced as they
\* were, and hands nothing to upload
C28_FetchErrFrame ==
    [][(pc = "idle" /\ pc' = "idle" /\ op' = "sync_err")
        => /\ elements' = elements
           /\ synced' = synced
           /\ sent' = <<>>
           /\ server' = server]_vars

\* C28 witness: a sync has failed at the fetch in a store that holds a
\* record without identifier and a tombstone: both are still there
C28_Witness ==
    /\ pc = "idle" /\ op = "sync_err"
    /\ \E j \in 1..Len(elements) : elements[j].id = None
    /\ \E j \in 1..Len(elements) : elements[j].removed

\* C29: the flag add_missing_ids of main.rs returns is true iff the call gave
\* an identifier to at least one record, i.e. iff the list of new
\* identifiers it returns is not empty: true for a store whose records all
\* lack an identifier, false for a non-empty store whose records all have one
C29_FlagMain ==
    pc = "allocated" =>
        /\ entries_added <=> (new_ids # <<>>)
        /\ entries_added <=> (\E j \in 1..Len(elements0) : elements0[j].id = None)
        /\ (elements0 # <<>> /\ \A j \in 1..Len(elements0) : elements0[j].id = None)
           => entries_added
        /\ (elements0 # <<>> /\ \A j \in 1..Len(elements0) : elements0[j].id # None)
           => ~entries_added

\* the records add_new_elements has appended so far
MergeAdded == SubSeq(elements, Len(elements0) + 1, Len(elements))

\* the remote records the closure has been run on so far
MergeVisited == SubSeq(new0, 1, Len(new0) - Len(new))

\* C30: add_new_elements is append-only: the store it started with is a
\* prefix of the store at every point of the merge (no record removed,
\* moved or changed, also when a remote record with the same identifier has
\* other values), and the records behind that prefix are remote records
\* already visited, in the order of the remote list, each with removed false
C30_MergeAppendOnly ==
    pc \in {"merge", "merged", "diverged"} =>
        /\ Len(elements) >= Len(elements0)
        /\ SubSeq(elements, 1, Len(elements0)) = elements0
        /\ IsSubsequence(MergeAdded, MergeVisited)
        /\ \A j \in 1..Len(MergeAdded) : ~MergeAdded[j].removed

\* C30 witness: the merge has returned after skipping a remote record whose
\* identifier a local record with another title carries and after appending
\* a remote record
C30_Witness ==
    /\ pc = "merged"
    /\ Len(elements) > Len(elements0)
    /\ \E n \in 1..Len(new0), j \in 1..Len(elements0) :
          /\ new0[n].id # None
          /\ new0[n].id = elements0[j].id
          /\ new0[n].title # elements0[j].title

\* C31: when the entries of the fetched document carry pairwise different
\* identifiers, every document handed to upload holds at most one entry per
\* identifier
C31_NoDuplicateUploaded ==
    (\A v \in 1..MaxId : CountEntries(xml, v) <= 1)
    => \A n \in 1..Len(sent) : \A v \in 1..MaxId : CountEntries(sent[n], v) <= 1

\* C32: right after a sync that has returned Ok the store holds no record
\* marked removed
C32_NoTombstoneSurvives ==
    (pc = "idle" /\ op = "sync_ok" /\ synced)
    => \A j \in 1..Len(elements) : ~elements[j].removed

\* C33: a sync started right after a sync that returned Ok (no handler in
\* between, the server holding what that sync left) hands nothing to upload
\* and has the store, at each of its steps, as it was when it started
C33_SyncIdempotent ==
    (op = "sync_ok" /\ pc \notin {"idle", "fetched"})
    => /\ sent = <<>>
       /\ elements = elements0

\* C34: synced is set to true by a sync that issued an upload only if the
\* server took that upload (the status of the response was a success)
C34_UploadStatusDecides ==
    [][(pc = "merged" /\ pc' = "idle" /\ synced' /\ sent # <<>>)
        => server = sent[Len(sent)]]_vars

\* C35: remove(id) returns true iff a record of the store carries id; then
\* the first record that carries it has removed set, and the length, the
\* order, every other record and every other field are as before; when it
\* returns false the store is as before; synced is not written; a call that
\* follows a call with the same id that returned true returns true and
\* leaves the store as it is
C35_RemoveFrame ==
    [][(pc = "remove" /\ Len(log') = Len(log) + 1)
        => LET c == log'[Len(log')]
               p == Position(elements, c.id) IN
           /\ c.ret <=> \E j \in 1..Len(elements) : elements[j].id = Some(c.id)
           /\ synced' = synced
           /\ ~c.ret => elements' = elements
           /\ c.ret =>
                /\ Len(elements') = Len(elements)
                /\ elements[p].id = Some(c.id)
                /\ \A j \in 1..(p - 1) : elements[j].id # Some(c.id)
                /\ elements'[p].removed
                /\ elements'[p] = [elements[p] EXCEPT !.removed = TRUE]
                /\ \A j \in 1..Len(elements) : j # p => elements'[j] = elements[j]
           /\ (log # <<>> /\ log[Len(log)].id = c.id /\ log[Len(log)].ret)
              => (c.ret /\ elements' = elements)]_vars

\* C35 witness: remove has been called twice with the identifier of a
\* record that was not removed, in a store of two records; both calls
\* returned true
C35_Witness ==
    /\ pc = "remove"
    /\ Len(log) = 2
    /\ log[1].ret /\ log[2] = log[1]
    /\ Len(elements) = 2
    /\ ~elements0[Position(elements0, log[1].id)].removed
    /\ elements[Position(elements0, log[1].id)].removed

RECURSIVE RefIds(_, _)
\* the identifiers, in store order, of the records of elems that have one
\* and, when skip_removed, are not marked removed
RefIds(elems, skip_removed) ==
    IF elems = <<>> THEN <<>>
    ELSE (IF Head(elems).id # None /\ (skip_removed => ~Head(elems).removed)
          THEN <<Unwrap(Head(elems).id)>> ELSE <<>>)
         \o RefIds(Tail(elems), skip_removed)

\* C36: get_ids(true) returns, in store order, the identifiers of the
\* records that have one and are not removed; get_ids(false) returns, in
\* store order, the identifiers of all records that have one
C36_GetIds ==
    [][(pc = "remove" /\ log' = log)
        => /\ op' = "get_ids_true" => ids' = RefIds(elements, TRUE)
           /\ op' = "get_ids_false" => ids' = RefIds(elements, FALSE)]_vars

\* what C36 says of get_ids(true) alone
GetIdsTrueOnly ==
    [][(pc = "remove" /\ log' = log /\ op' = "get_ids_true")
        => ids' = RefIds(elements, TRUE)]_vars

\* C37: in every state the program reaches every record marked removed has
\* an identifier, and every record that enters the store (created by
\* add_menu through AppElement::new, or decoded from the fetched document
\* and merged) and every decoded record enters with removed false
C37_TombstonesHaveIds ==
    /\ [](\A j \in 1..Len(elements) : elements[j].removed => elements[j].id # None)
    /\ [](\A n \in 1..Len(fetched_registry) : ~fetched_registry[n].removed)
    /\ [][Len(elements') > Len(elements)
          => /\ Len(elements') = Len(elements) + 1
             /\ ~elements'[Len(elements')].removed]_vars

\* C37 witness: between two handlers the store holds a tombstone, which has
\* an identifier, next to a record that has none yet
C37_Witness ==
    /\ pc = "idle"
    /\ \E j \in 1..Len(elements) : elements[j].removed /\ elements[j].id # None
    /\ \E j \in 1..Len(elements) : elements[j].id = None

=============================================================================
